---- MODULE Spec2Model ----
(***************************************************************************)
(* A model of the toy calculator: the tokenizer and recursive-descent      *)
(* parser of calculator-parser.js and the complex-function compiler        *)
(* (compileToComplexFunction) of calculator-backends.js.                   *)
(*                                                                         *)
(* Texts (source code, number pictures, emitted JavaScript) are TLA+       *)
(* strings.  JavaScript numbers are modelled as exact rationals <<n, d>>   *)
(* in lowest terms with d > 0, extended with Infinity <<1, 0>>,            *)
(* -Infinity <<-1, 0>> and NaN <<0, 0>>; IEEE-754 rounding and the sign    *)
(* of zero are not modelled.  Value-table indices are 0-based as in the    *)
(* source; entry i of the table is the (i+1)-th element of the sequence.   *)
(***************************************************************************)
EXTENDS Integers, Sequences, FiniteSets, TLC

(***************************************************************************)
(* Bounds of the model.                                                    *)
(***************************************************************************)
\* the largest number of binary operators in an enumerated formula
MaxOps == 2
\* the largest number of characters in an enumerated raw source text
MaxLen == 5
\* the largest number of fractional digits of a folded constant
MaxFrac == 4

(***************************************************************************)
(* Characters and strings.                                                 *)
(***************************************************************************)
Digits == {"0", "1", "2", "3", "4", "5", "6", "7", "8", "9"}

DigitVal(c) ==
    CASE c = "0" -> 0 [] c = "1" -> 1 [] c = "2" -> 2 [] c = "3" -> 3
      [] c = "4" -> 4 [] c = "5" -> 5 [] c = "6" -> 6 [] c = "7" -> 7
      [] c = "8" -> 8 [] c = "9" -> 9

CharAt(s, k) == SubSeq(s, k, k)

\* var x = v; K(x): the value v is computed once and named
Let(v, K(_)) == K(v)

\* s.indexOf(t) !== -1
Contains(s, t) ==
    \E k \in 1..(Len(s) - Len(t) + 1) : SubSeq(s, k, k + Len(t) - 1) = t

(***************************************************************************)
(* JavaScript numbers: Number(s), String(x) and the four operators.        *)
(***************************************************************************)
RECURSIVE GCD(_, _)
GCD(a, b) == IF b = 0 THEN a ELSE GCD(b, a % b)

Abs(n) == IF n < 0 THEN -n ELSE n
Sign(n) == IF n < 0 THEN -1 ELSE IF n > 0 THEN 1 ELSE 0

Norm(n, d) ==
    IF d = 0 THEN <<Sign(n), 0>>
    ELSE LET s == IF d < 0 THEN -1 ELSE 1
             g == GCD(Abs(n), Abs(d))
         IN  <<(s * n) \div g, (s * d) \div g>>

NaN == <<0, 0>>
Infinity == <<1, 0>>
IsFinite(x) == x[2] # 0

NumAdd(x, y) ==
    IF x[2] = 0 /\ y[2] = 0
    THEN (IF x = y THEN x ELSE NaN)
    ELSE Norm(x[1] * y[2] + y[1] * x[2], x[2] * y[2])

NumNeg(x) == <<-x[1], x[2]>>

NumSub(x, y) == NumAdd(x, NumNeg(y))

NumMul(x, y) == Norm(x[1] * y[1], x[2] * y[2])

NumRecip(y) ==
    IF y[1] > 0 THEN <<y[2], y[1]>>
    ELSE IF y[1] < 0 THEN <<-y[2], -y[1]>>
    ELSE IF y[2] = 0 THEN NaN ELSE Infinity

NumDiv(x, y) == NumMul(x, NumRecip(y))

\* the decimal value of a run of digits read after the value acc
RECURSIVE DigitsVal(_, _)
DigitsVal(s, acc) ==
    IF s = "" THEN acc ELSE DigitsVal(Tail(s), 10 * acc + DigitVal(Head(s)))

RECURSIVE Pow10(_)
Pow10(k) == IF k = 0 THEN 1 ELSE 10 * Pow10(k - 1)

\* the position of the first "." of s, or 0
DotAt(s) ==
    IF \E k \in 1..Len(s) : CharAt(s, k) = "."
    THEN CHOOSE k \in 1..Len(s) :
             CharAt(s, k) = "." /\ \A j \in 1..(k - 1) : CharAt(s, j) # "."
    ELSE 0

\* Number(s) of an unsigned decimal picture
UnsignedNumber(s) ==
    IF DotAt(s) = 0 THEN <<DigitsVal(s, 0), 1>>
    ELSE LET ip == SubSeq(s, 1, DotAt(s) - 1)
             fp == SubSeq(s, DotAt(s) + 1, Len(s))
         IN  Norm(DigitsVal(ip \o fp, 0), Pow10(Len(fp)))

\* Number(s), for the pictures that occur: digit runs and results of String
Number(s) ==
    IF s = "NaN" THEN NaN
    ELSE IF s = "Infinity" THEN Infinity
    ELSE IF s = "-Infinity" THEN NumNeg(Infinity)
    ELSE IF Head(s) = "-" THEN NumNeg(UnsignedNumber(Tail(s)))
    ELSE UnsignedNumber(s)

\* the fractional digits of r/d, r < d, at most k of them
RECURSIVE FracDigits(_, _, _)
FracDigits(r, d, k) ==
    IF r = 0 \/ k = 0 THEN ""
    ELSE ToString((10 * r) \div d) \o FracDigits((10 * r) % d, d, k - 1)

\* the decimal expansion of x ends within MaxFrac fractional digits
ExactDecimal(x) == IF x[2] = 0 THEN TRUE ELSE Pow10(MaxFrac) % x[2] = 0

\* String(x)
String(x) ==
    IF x[2] = 0
    THEN (IF x[1] > 0 THEN "Infinity" ELSE IF x[1] < 0 THEN "-Infinity" ELSE "NaN")
    ELSE IF x[2] = 1 THEN ToString(x[1])
    ELSE (IF x[1] < 0 THEN "-" ELSE "")
         \o ToString(Abs(x[1]) \div x[2]) \o "."
         \o FracDigits(Abs(x[1]) % x[2], x[2], MaxFrac)

(***************************************************************************)
(* calculator-parser.js, part one: tokenize.                               *)
(***************************************************************************)
Letters == {"a", "b", "c", "d", "e", "f", "g", "h", "i", "j", "k", "l", "m",
            "n", "o", "p", "q", "r", "s", "t", "u", "v", "w", "x", "y", "z",
            "A", "B", "C", "D", "E", "F", "G", "H", "I", "J", "K", "L", "M",
            "N", "O", "P", "Q", "R", "S", "T", "U", "V", "W", "X", "Y", "Z"}
Spaces == {" ", "\n", "\t"}

\* the length of the longest prefix of s made of characters of class
RECURSIVE Run(_, _)
Run(s, class) ==
    IF s # "" /\ Head(s) \in class THEN 1 + Run(Tail(s), class) ELSE 0

\* one match of /\s*([A-Za-z]+|[0-9]+|\S)\s*/g per step
RECURSIVE tokenize(_)
tokenize(code) ==
    Let(SubSeq(code, Run(code, Spaces) + 1, Len(code)), LAMBDA body :
    Let(IF body = "" THEN 0
        ELSE IF Head(body) \in Letters THEN Run(body, Letters)
        ELSE IF Head(body) \in Digits THEN Run(body, Digits)
        ELSE 1, LAMBDA n :
    IF body = "" THEN <<>>
    ELSE <<SubSeq(body, 1, n)>> \o tokenize(SubSeq(body, n + 1, Len(body)))))

\* the helpers isNumber(token) and isName(token) of the parser
undefined == "undefined token"

isNumberToken(token) ==
    token # undefined /\ token # "" /\ Run(token, Digits) = Len(token)

isName(token) ==
    token # undefined /\ token # "" /\ Run(token, Letters) = Len(token)

(***************************************************************************)
(* calculator-parser.js, part two: parse.  A parsing function returns      *)
(* either [ok |-> TRUE, expr, position] or [ok |-> FALSE, error].          *)
(***************************************************************************)
SyntaxError(message) == [name |-> "SyntaxError", message |-> message]

Throw(error) == [ok |-> FALSE, error |-> error]

\* peek(): tokens[position], undefined past the end
peek(tokens, position) ==
    IF position < Len(tokens) THEN tokens[position + 1] ELSE undefined

RECURSIVE parsePrimaryExpr(_, _), parseMulLoop(_, _, _), parseMulExpr(_, _),
          parseExprLoop(_, _, _), parseExpr(_, _)

parsePrimaryExpr(tokens, position) ==
    LET t == peek(tokens, position) IN
    IF isNumberToken(t)
    THEN [ok |-> TRUE, expr |-> [type |-> "number", value |-> t],
          position |-> position + 1]
    ELSE IF isName(t)
    THEN [ok |-> TRUE, expr |-> [type |-> "name", id |-> t],
          position |-> position + 1]
    ELSE IF t = "("
    THEN Let(parseExpr(tokens, position + 1), LAMBDA e :
         IF ~e.ok THEN e
         ELSE IF peek(tokens, e.position) # ")"
         THEN Throw(SyntaxError("expected )"))
         ELSE [ok |-> TRUE, expr |-> e.expr, position |-> e.position + 1])
    ELSE Throw(SyntaxError("expected a number, a variable, or parentheses"))

\* the while loop of parseMulExpr, entered with expr parsed up to position
parseMulLoop(tokens, expr, position) ==
    LET t == peek(tokens, position) IN
    IF t = "*" \/ t = "/"
    THEN Let(parsePrimaryExpr(tokens, position + 1), LAMBDA rhs :
         IF ~rhs.ok THEN rhs
         ELSE parseMulLoop(tokens,
                           [type |-> t, left |-> expr, right |-> rhs.expr],
                           rhs.position))
    ELSE [ok |-> TRUE, expr |-> expr, position |-> position]

parseMulExpr(tokens, position) ==
    Let(parsePrimaryExpr(tokens, position), LAMBDA e :
    IF ~e.ok THEN e ELSE parseMulLoop(tokens, e.expr, e.position))

\* the loop of parseExpr taking the whole rest as the right operand
parseExprLoop_RightAssoc(tokens, expr, position) ==
    LET t == peek(tokens, position) IN
    IF t = "+" \/ t = "-"
    THEN Let(parseExpr(tokens, position + 1), LAMBDA rhs :
         IF ~rhs.ok THEN rhs
         ELSE [ok |-> TRUE,
               expr |-> [type |-> t, left |-> expr, right |-> rhs.expr],
               position |-> rhs.position])
    ELSE [ok |-> TRUE, expr |-> expr, position |-> position]

\* the while loop of parseExpr, entered with expr parsed up to position
parseExprLoop(tokens, expr, position) ==
    LET t == peek(tokens, position) IN
    IF t = "+" \/ t = "-"
    THEN Let(parseMulExpr(tokens, position + 1), LAMBDA rhs :
         IF ~rhs.ok THEN rhs
         ELSE parseExprLoop(tokens,
                            [type |-> t, left |-> expr, right |-> rhs.expr],
                            rhs.position))
    ELSE [ok |-> TRUE, expr |-> expr, position |-> position]

parseExpr(tokens, position) ==
    Let(parseMulExpr(tokens, position), LAMBDA e :
    IF ~e.ok THEN e ELSE parseExprLoop(tokens, e.expr, e.position))

parse(code) ==
    Let(tokenize(code), LAMBDA tokens :
    Let(parseExpr(tokens, 0), LAMBDA result :
    IF ~result.ok THEN result
    ELSE IF result.position # Len(tokens)
    THEN Throw(SyntaxError("unexpected '" \o peek(tokens, result.position) \o "'"))
    ELSE result))

(***************************************************************************)
(* calculator-backends.js, compileToComplexFunction: the value table.      *)
(* A function of the source that may push onto `values` takes the table    *)
(* and returns [values |-> the table afterwards, index |-> its result].    *)
(***************************************************************************)
null == "null"

\* the table seeded with the imaginary part first
InitialValues_Swapped ==
    << [type |-> "arg", arg0 |-> "z_im", arg1 |-> null],
       [type |-> "arg", arg0 |-> "z_re", arg1 |-> null] >>

InitialValues ==
    << [type |-> "arg", arg0 |-> "z_re", arg1 |-> null],
       [type |-> "arg", arg0 |-> "z_im", arg1 |-> null] >>

\* values[i]
At(values, i) == values[i + 1]

valuesEqual(n1, n2) ==
    n1.type = n2.type /\ n1.arg0 = n2.arg0 /\ n1.arg1 = n2.arg1

\* valueToIndex putting a new entry first, not last
valueToIndex_Unshift(values, v) ==
    IF \E i \in 0..(Len(values) - 1) : valuesEqual(At(values, i), v)
    THEN [values |-> values,
          index |-> CHOOSE i \in 0..(Len(values) - 1) :
                        /\ valuesEqual(At(values, i), v)
                        /\ \A j \in 0..(i - 1) : ~valuesEqual(At(values, j), v)]
    ELSE [values |-> <<v>> \o values, index |-> 0]

\* valueToIndex without the scan for an equal entry
valueToIndex_NoReuse(values, v) ==
    [values |-> Append(values, v), index |-> Len(values)]

valueToIndex(values, v) ==
    IF \E i \in 0..(Len(values) - 1) : valuesEqual(At(values, i), v)
    THEN [values |-> values,
          index |-> CHOOSE i \in 0..(Len(values) - 1) :
                        /\ valuesEqual(At(values, i), v)
                        /\ \A j \in 0..(i - 1) : ~valuesEqual(At(values, j), v)]
    ELSE [values |-> Append(values, v), index |-> Len(values)]

num(values, s) ==
    valueToIndex(values, [type |-> "number", arg0 |-> s, arg1 |-> null])

op(values, type, a, b) ==
    valueToIndex(values, [type |-> type, arg0 |-> a, arg1 |-> b])

isNumber(values, i) == At(values, i).type = "number"

isZero(values, i) == isNumber(values, i) /\ At(values, i).arg0 = "0"

\* isOne comparing the number, not the text
isOne_Numeric(values, i) ==
    isNumber(values, i) /\ Number(At(values, i).arg0) = <<1, 1>>

isOne(values, i) == isNumber(values, i) /\ At(values, i).arg0 = "1"

\* an index returned without touching the table
Same(values, i) == [values |-> values, index |-> i]

(***************************************************************************)
(* The simplifier: add, sub, mul, div.                                     *)
(***************************************************************************)
\* add writing the operands of a sum in the order of their indices
add_Commutative(values, a, b) ==
    IF isZero(values, a) THEN Same(values, b)
    ELSE IF isZero(values, b) THEN Same(values, a)
    ELSE IF isNumber(values, a) /\ isNumber(values, b)
    THEN num(values, String(NumAdd(Number(At(values, a).arg0),
                                   Number(At(values, b).arg0))))
    ELSE op(values, "+", IF a < b THEN a ELSE b, IF a < b THEN b ELSE a)

add(values, a, b) ==
    IF isZero(values, a) THEN Same(values, b)
    ELSE IF isZero(values, b) THEN Same(values, a)
    ELSE IF isNumber(values, a) /\ isNumber(values, b)
    THEN num(values, String(NumAdd(Number(At(values, a).arg0),
                                   Number(At(values, b).arg0))))
    ELSE op(values, "+", a, b)

\* sub with a rule for a zero left operand, as add has one
sub_ZeroLeft(values, a, b) ==
    IF isZero(values, a) THEN Same(values, b)
    ELSE IF isZero(values, b) THEN Same(values, a)
    ELSE IF isNumber(values, a) /\ isNumber(values, b)
    THEN num(values, String(NumSub(Number(At(values, a).arg0),
                                   Number(At(values, b).arg0))))
    ELSE op(values, "-", a, b)

sub(values, a, b) ==
    IF isZero(values, b) THEN Same(values, a)
    ELSE IF isNumber(values, a) /\ isNumber(values, b)
    THEN num(values, String(NumSub(Number(At(values, a).arg0),
                                   Number(At(values, b).arg0))))
    ELSE op(values, "-", a, b)

\* mul without the constant-folding rule
mul_NoFold(values, a, b) ==
    IF isZero(values, a) THEN Same(values, a)
    ELSE IF isZero(values, b) THEN Same(values, b)
    ELSE IF isOne(values, a) THEN Same(values, b)
    ELSE IF isOne(values, b) THEN Same(values, a)
    ELSE op(values, "*", a, b)

\* mul folding two constants before it looks for a 0 or a 1
mul_FoldFirst(values, a, b) ==
    IF isNumber(values, a) /\ isNumber(values, b)
    THEN num(values, String(NumMul(Number(At(values, a).arg0),
                                   Number(At(values, b).arg0))))
    ELSE IF isZero(values, a) THEN Same(values, a)
    ELSE IF isZero(values, b) THEN Same(values, b)
    ELSE IF isOne(values, a) THEN Same(values, b)
    ELSE IF isOne(values, b) THEN Same(values, a)
    ELSE op(values, "*", a, b)

mul(values, a, b) ==
    IF isZero(values, a) THEN Same(values, a)
    ELSE IF isZero(values, b) THEN Same(values, b)
    ELSE IF isOne(values, a) THEN Same(values, b)
    ELSE IF isOne(values, b) THEN Same(values, a)
    ELSE IF isNumber(values, a) /\ isNumber(values, b)
    THEN num(values, String(NumMul(Number(At(values, a).arg0),
                                   Number(At(values, b).arg0))))
    ELSE op(values, "*", a, b)

\* div simplifying 0/b to 0
div_ZeroDividend(values, a, b) ==
    IF isOne(values, b) THEN Same(values, a)
    ELSE IF isZero(values, a) THEN Same(values, a)
    ELSE IF isNumber(values, a) /\ isNumber(values, b) /\ ~isZero(values, b)
    THEN num(values, String(NumDiv(Number(At(values, a).arg0),
                                   Number(At(values, b).arg0))))
    ELSE op(values, "/", a, b)

\* div without the rule for a divisor 1
div_NoOneRule(values, a, b) ==
    IF isNumber(values, a) /\ isNumber(values, b) /\ ~isZero(values, b)
    THEN num(values, String(NumDiv(Number(At(values, a).arg0),
                                   Number(At(values, b).arg0))))
    ELSE op(values, "/", a, b)

\* div folding a division by the constant 0 as well
div_FoldsZero(values, a, b) ==
    IF isOne(values, b) THEN Same(values, a)
    ELSE IF isNumber(values, a) /\ isNumber(values, b)
    THEN num(values, String(NumDiv(Number(At(values, a).arg0),
                                   Number(At(values, b).arg0))))
    ELSE op(values, "/", a, b)

div(values, a, b) ==
    IF isOne(values, b) THEN Same(values, a)
    ELSE IF isNumber(values, a) /\ isNumber(values, b) /\ ~isZero(values, b)
    THEN num(values, String(NumDiv(Number(At(values, a).arg0),
                                   Number(At(values, b).arg0))))
    ELSE op(values, "/", a, b)

(***************************************************************************)
(* lower: one operator per case of the switch.  Each takes the table and   *)
(* the lowered operands and returns [ok, values, re, im], or the thrown    *)
(* error.                                                                  *)
(***************************************************************************)
Pair(values, re, im) == [ok |-> TRUE, values |-> values, re |-> re, im |-> im]

\* lowerNumber writing the literal the way String writes its value
lowerNumber_Normalised(values, value) ==
    Let(num(values, String(Number(value))), LAMBDA re :
    Let(num(re.values, "0"), LAMBDA im :
    Pair(im.values, re.index, im.index)))

lowerNumber(values, value) ==
    Let(num(values, value), LAMBDA re :
    Let(num(re.values, "0"), LAMBDA im :
    Pair(im.values, re.index, im.index)))

\* lowerAddSub with the choice of add and sub the wrong way round
lowerAddSub_Swapped(values, type, a, b) ==
    Let(IF type = "+" THEN sub(values, a.re, b.re) ELSE add(values, a.re, b.re), LAMBDA re :
    Let(IF type = "+" THEN sub(re.values, a.im, b.im) ELSE add(re.values, a.im, b.im), LAMBDA im :
    Pair(im.values, re.index, im.index)))

lowerAddSub(values, type, a, b) ==
    Let(IF type = "+" THEN add(values, a.re, b.re) ELSE sub(values, a.re, b.re), LAMBDA re :
    Let(IF type = "+" THEN add(re.values, a.im, b.im) ELSE sub(re.values, a.im, b.im), LAMBDA im :
    Pair(im.values, re.index, im.index)))

lowerMul(values, a, b) ==
    Let(mul(values, a.re, b.re), LAMBDA m1 :
    Let(mul(m1.values, a.im, b.im), LAMBDA m2 :
    Let(sub(m2.values, m1.index, m2.index), LAMBDA re :
    Let(mul(re.values, a.re, b.im), LAMBDA m3 :
    Let(mul(m3.values, a.im, b.re), LAMBDA m4 :
    Let(add(m4.values, m3.index, m4.index), LAMBDA im :
    Pair(im.values, re.index, im.index)))))))

\* lowerDiv dividing the imaginary part by the square of br alone
lowerDiv_OwnDenominator(values, a, b) ==
    Let(mul(values, b.re, b.re), LAMBDA s1 :
    Let(mul(s1.values, b.im, b.im), LAMBDA s2 :
    Let(add(s2.values, s1.index, s2.index), LAMBDA t :
    Let(mul(t.values, a.re, b.re), LAMBDA m1 :
    Let(mul(m1.values, a.im, b.im), LAMBDA m2 :
    Let(add(m2.values, m1.index, m2.index), LAMBDA n1 :
    Let(div(n1.values, n1.index, t.index), LAMBDA re :
    Let(mul(re.values, a.im, b.re), LAMBDA m3 :
    Let(mul(m3.values, a.re, b.im), LAMBDA m4 :
    Let(sub(m4.values, m3.index, m4.index), LAMBDA n2 :
    Let(div(n2.values, n2.index, s1.index), LAMBDA im :
    Pair(im.values, re.index, im.index))))))))))))

lowerDiv(values, a, b) ==
    Let(mul(values, b.re, b.re), LAMBDA s1 :
    Let(mul(s1.values, b.im, b.im), LAMBDA s2 :
    Let(add(s2.values, s1.index, s2.index), LAMBDA t :
    Let(mul(t.values, a.re, b.re), LAMBDA m1 :
    Let(mul(m1.values, a.im, b.im), LAMBDA m2 :
    Let(add(m2.values, m1.index, m2.index), LAMBDA n1 :
    Let(div(n1.values, n1.index, t.index), LAMBDA re :
    Let(mul(re.values, a.im, b.re), LAMBDA m3 :
    Let(mul(m3.values, a.re, b.im), LAMBDA m4 :
    Let(sub(m4.values, m3.index, m4.index), LAMBDA n2 :
    Let(div(n2.values, n2.index, t.index), LAMBDA im :
    Pair(im.values, re.index, im.index))))))))))))

\* lowerName taking every identifier but i for z
lowerName_Lenient(values, id) ==
    IF id = "i"
    THEN Let(num(values, "0"), LAMBDA re :
         Let(num(re.values, "1"), LAMBDA im :
         Pair(im.values, re.index, im.index)))
    ELSE Pair(values, 0, 1)

lowerName(values, id) ==
    IF id = "i"
    THEN Let(num(values, "0"), LAMBDA re :
         Let(num(re.values, "1"), LAMBDA im :
         Pair(im.values, re.index, im.index)))
    ELSE IF id # "z"
    THEN Throw(SyntaxError("undefined variable: " \o id))
    ELSE Pair(values, 0, 1)

lowerBinary(values, type, a, b) ==
    IF type = "+" \/ type = "-" THEN lowerAddSub(values, type, a, b)
    ELSE IF type = "*" THEN lowerMul(values, a, b)
    ELSE lowerDiv(values, a, b)

\* lower(obj), run on the table `values`
RECURSIVE lower(_, _)
lower(values, obj) ==
    IF obj.type = "number" THEN lowerNumber(values, obj.value)
    ELSE IF obj.type = "name" THEN lowerName(values, obj.id)
    ELSE Let(lower(values, obj.left), LAMBDA a :
         IF ~a.ok THEN a
         ELSE Let(lower(a.values, obj.right), LAMBDA b :
              IF ~b.ok THEN b
              ELSE lowerBinary(b.values, obj.type, a, b)))

(***************************************************************************)
(* The code emitter: computeUseCounts and ir_to_js.                        *)
(***************************************************************************)
binaryOps == {"+", "-", "*", "/"}

\* useCounts[i], for i an index of the table
computeUseCounts(values) ==
    [i \in 0..(Len(values) - 1) |->
        Cardinality({k \in 0..(Len(values) - 1) :
                        At(values, k).type \in binaryOps /\ At(values, k).arg0 = i})
      + Cardinality({k \in 0..(Len(values) - 1) :
                        At(values, k).type \in binaryOps /\ At(values, k).arg1 = i})]

\* the for loop of ir_to_js from index i on; st = [js, code, next_temp_id]
RECURSIVE irLoop(_, _, _, _)
\* the loop writing each new assignment before the ones written so far
irLoop_Prepend(values, useCounts, i, st) ==
    IF i >= Len(values) THEN st
    ELSE Let(At(values, i), LAMBDA node :
         Let(IF node.type = "number" \/ node.type = "arg"
             THEN node.arg0
             ELSE "(" \o st.js[node.arg0 + 1] \o node.type
                      \o st.js[node.arg1 + 1] \o ")", LAMBDA text :
         Let("t" \o ToString(st.next_temp_id), LAMBDA name :
         IF useCounts[i] > 1
         THEN irLoop(values, useCounts, i + 1,
                     [js |-> Append(st.js, name),
                      code |-> "var " \o name \o " = " \o text \o ";\n" \o st.code,
                      next_temp_id |-> st.next_temp_id + 1])
         ELSE irLoop(values, useCounts, i + 1,
                     [js |-> Append(st.js, text),
                      code |-> st.code,
                      next_temp_id |-> st.next_temp_id]))))

\* the loop taking a fresh name for every entry, bound or not
irLoop_NameForAll(values, useCounts, i, st) ==
    IF i >= Len(values) THEN st
    ELSE Let(At(values, i), LAMBDA node :
         Let(IF node.type = "number" \/ node.type = "arg"
             THEN node.arg0
             ELSE "(" \o st.js[node.arg0 + 1] \o node.type
                      \o st.js[node.arg1 + 1] \o ")", LAMBDA text :
         Let("t" \o ToString(st.next_temp_id), LAMBDA name :
         IF useCounts[i] > 1
         THEN irLoop(values, useCounts, i + 1,
                     [js |-> Append(st.js, name),
                      code |-> st.code \o "var " \o name \o " = " \o text \o ";\n",
                      next_temp_id |-> st.next_temp_id + 1])
         ELSE irLoop(values, useCounts, i + 1,
                     [js |-> Append(st.js, text),
                      code |-> st.code,
                      next_temp_id |-> st.next_temp_id + 1]))))

irLoop(values, useCounts, i, st) ==
    IF i >= Len(values) THEN st
    ELSE Let(At(values, i), LAMBDA node :
         Let(IF node.type = "number" \/ node.type = "arg"
             THEN node.arg0
             ELSE "(" \o st.js[node.arg0 + 1] \o node.type
                      \o st.js[node.arg1 + 1] \o ")", LAMBDA text :
         Let("t" \o ToString(st.next_temp_id), LAMBDA name :
         IF useCounts[i] > 1
         THEN irLoop(values, useCounts, i + 1,
                     [js |-> Append(st.js, name),
                      code |-> st.code \o "var " \o name \o " = " \o text \o ";\n",
                      next_temp_id |-> st.next_temp_id + 1])
         ELSE irLoop(values, useCounts, i + 1,
                     [js |-> Append(st.js, text),
                      code |-> st.code,
                      next_temp_id |-> st.next_temp_id]))))

ir_to_js(values, result) ==
    Let(irLoop(values, computeUseCounts(values), 0,
               [js |-> <<>>, code |-> "", next_temp_id |-> 0]), LAMBDA st :
    st.code \o "return {re: " \o st.js[result.re + 1]
            \o ", im: " \o st.js[result.im + 1] \o "};\n")

(***************************************************************************)
(* Function("z_re, z_im", code) and the function it returns.               *)
(***************************************************************************)
\* the engine accepts the emitted text as a function body: the one way the
\* emitter can produce a token sequence that is not an expression is a
\* binary minus written right before the sign of a negative constant, which
\* reads as the decrement operator
FunctionBodyOk(text) == ~Contains(text, "--")

\* the value of a numeric literal of the emitted (non-strict) code: a digit
\* run that starts with 0 and has only octal digits is read in base 8
RECURSIVE OctalVal(_, _)
OctalVal(s, acc) ==
    IF s = "" THEN acc ELSE OctalVal(Tail(s), 8 * acc + DigitVal(Head(s)))

LiteralValue(s) ==
    IF /\ Len(s) > 1
       /\ Head(s) = "0"
       /\ Run(s, {"0", "1", "2", "3", "4", "5", "6", "7"}) = Len(s)
    THEN <<OctalVal(s, 0), 1>>
    ELSE Number(s)

\* the number entry i of the table denotes when the emitted function is
\* called with (z_re, z_im): every operator expression is written in
\* parentheses, so the text evaluates as the table reads
RECURSIVE ValueOf(_, _, _, _)
ValueOf(values, i, z_re, z_im) ==
    Let(At(values, i), LAMBDA node :
    IF node.type = "arg" THEN (IF node.arg0 = "z_re" THEN z_re ELSE z_im)
    ELSE IF node.type = "number" THEN LiteralValue(node.arg0)
    ELSE Let(ValueOf(values, node.arg0, z_re, z_im), LAMBDA l :
         Let(ValueOf(values, node.arg1, z_re, z_im), LAMBDA r :
         IF node.type = "+" THEN NumAdd(l, r)
         ELSE IF node.type = "-" THEN NumSub(l, r)
         ELSE IF node.type = "*" THEN NumMul(l, r)
         ELSE NumDiv(l, r))))

\* the object {re, im} the emitted function returns
Call(values, result, z_re, z_im) ==
    [re |-> ValueOf(values, result.re, z_re, z_im),
     im |-> ValueOf(values, result.im, z_re, z_im)]

(***************************************************************************)
(* The formulas the model compiles.                                        *)
(***************************************************************************)
Names == {"z", "i", "y"}
Literals == {"0", "1", "2", "01"}
Leaves == {[type |-> "name", id |-> n] : n \in Names}
          \cup {[type |-> "number", value |-> v] : v \in Literals}

\* formulas of more than two operators are enumerated over these leaves only
CoreLeaves == {[type |-> "name", id |-> "z"]}
              \cup {[type |-> "number", value |-> v] : v \in {"0", "1"}}

LeavesOf(k) == IF k <= 2 THEN Leaves ELSE CoreLeaves

\* the syntax trees with exactly k operators and leaves in L
RECURSIVE Trees(_, _)
Trees(k, L) ==
    IF k = 0 THEN L
    ELSE UNION {
           {[type |-> o, left |-> l, right |-> r] :
               o \in binaryOps, l \in Trees(j, L), r \in Trees(k - 1 - j, L)}
           : j \in 0..(k - 1)}

IsLeaf(obj) == obj.type = "number" \/ obj.type = "name"

\* a source text of the tree obj: compound operands in parentheses
RECURSIVE Unparse(_)
Unparse(obj) ==
    IF obj.type = "number" THEN obj.value
    ELSE IF obj.type = "name" THEN obj.id
    ELSE (IF IsLeaf(obj.left) THEN Unparse(obj.left)
          ELSE "(" \o Unparse(obj.left) \o ")")
         \o obj.type \o
         (IF IsLeaf(obj.right) THEN Unparse(obj.right)
          ELSE "(" \o Unparse(obj.right) \o ")")

Examples ==
    {"(z+1)/(z-1)", "(z+1)*(z+1)", "2*3", "z*1", "y + 1", "1/0", "z/(1-1)",
     "(1 + 2) / 3", "z-(0-1)", "z+010", "1 +", "(z", "z 1", "", "z+00", "0+00",
     "((z+1)*(z+1))*0"}

Inputs ==
    {Unparse(t) : t \in UNION {Trees(k, LeavesOf(k)) : k \in 0..MaxOps}}
    \cup Examples

(***************************************************************************)
(* The state of one call of compileToComplexFunction after another.        *)
(***************************************************************************)
VARIABLES
    pc,      \* where the current call is: idle, lower, emitted, done,
             \* parsed (convertToJSON returned), built (convertToAST
             \* returned), evaluated (evaluateAsFraction returned), failed
    code,    \* the argument `code` of the call
    ast,     \* the result of parse(code)
    values,  \* the value table
    todo,    \* the nodes lower has still to visit, in the order it does
    stack,   \* the pairs {re, im} returned by the calls of lower so far
    result,  \* the pair lower(ast) returned
    out,     \* the program text ir_to_js returned, or the text toString
             \* returned
    error,   \* the exception the call threw
    prev,    \* an earlier call: its argument and what it produced
    value,   \* what convertToAST or evaluateAsFraction returned
    calls    \* the calls of the builder's methods, in the order made

vars == <<pc, code, ast, values, todo, stack, result, out, error, prev,
          value, calls>>

NoAst == [type |-> "none"]
NoError == [name |-> "none", message |-> ""]
NoResult == [re |-> 0, im |-> 0]
NoCall == [code |-> "", pc |-> "idle", out |-> "", error |-> NoError]
NoValue == [type |-> "none"]

\* the nodes of obj in the order lower visits them: left, right, the node
RECURSIVE Postorder(_)
Postorder(obj) ==
    IF IsLeaf(obj) THEN <<obj>>
    ELSE Postorder(obj.left) \o Postorder(obj.right) \o <<[type |-> obj.type]>>

Init ==
    /\ pc = "idle"
    /\ code = ""
    /\ ast = NoAst
    /\ values = <<>>
    /\ todo = <<>>
    /\ stack = <<>>
    /\ result = NoResult
    /\ out = ""
    /\ error = NoError
    /\ prev = NoCall
    /\ value = NoValue
    /\ calls = <<>>

\* every constant of the table is written with all its digits
InModel(vals) ==
    \A i \in 0..(Len(vals) - 1) :
        isNumber(vals, i) => ExactDecimal(Number(At(vals, i).arg0))

\* a call that goes on with the table the call before it left
Begin_SharedTable(c) ==
    /\ code' = c
    /\ values' = IF values = <<>> THEN InitialValues ELSE values
    /\ stack' = <<>>
    /\ result' = NoResult
    /\ out' = ""
    /\ \E p \in {parse(c)} :
       IF p.ok
       THEN /\ ast' = p.expr
            /\ todo' = Postorder(p.expr)
            /\ error' = NoError
            /\ pc' = "lower"
       ELSE /\ ast' = NoAst
            /\ todo' = <<>>
            /\ error' = p.error
            /\ pc' = "failed"
    /\ UNCHANGED <<prev, value, calls>>

\* a call begins: the fresh table, then parse(code)
Begin(c) ==
    /\ code' = c
    /\ values' = InitialValues
    /\ stack' = <<>>
    /\ result' = NoResult
    /\ out' = ""
    /\ \E p \in {parse(c)} :
       IF p.ok
       THEN /\ ast' = p.expr
            /\ todo' = Postorder(p.expr)
            /\ error' = NoError
            /\ pc' = "lower"
       ELSE /\ ast' = NoAst
            /\ todo' = <<>>
            /\ error' = p.error
            /\ pc' = "failed"
    /\ UNCHANGED <<prev, value, calls>>

Start == pc = "idle" /\ \E c \in Inputs : Begin(c)

\* lower returns its pair to the caller
Return(r) ==
    /\ values' = r.values
    /\ todo' = Tail(todo)
    /\ UNCHANGED <<pc, code, ast, result, out, error, prev, value, calls>>

LowerNumber ==
    /\ pc = "lower" /\ todo # <<>> /\ Head(todo).type = "number"
    /\ \E r \in {lowerNumber(values, Head(todo).value)} :
       /\ stack' = Append(stack, [re |-> r.re, im |-> r.im])
       /\ Return(r)

LowerName ==
    /\ pc = "lower" /\ todo # <<>> /\ Head(todo).type = "name"
    /\ \E r \in {lowerName(values, Head(todo).id)} :
       IF r.ok
       THEN /\ stack' = Append(stack, [re |-> r.re, im |-> r.im])
            /\ Return(r)
       ELSE /\ pc' = "failed"
            /\ error' = r.error
            /\ UNCHANGED <<code, ast, values, todo, stack, result, out, prev, value, calls>>

\* the case of lower for the operators in types, with both operands lowered
LowerOp(types) ==
    /\ pc = "lower" /\ todo # <<>> /\ Head(todo).type \in types
    /\ \E r \in {lowerBinary(values, Head(todo).type,
                             stack[Len(stack) - 1], stack[Len(stack)])} :
           /\ InModel(r.values)
           /\ stack' = Append(SubSeq(stack, 1, Len(stack) - 2),
                              [re |-> r.re, im |-> r.im])
           /\ Return(r)

LowerAddSub == LowerOp({"+", "-"})

LowerMul == LowerOp({"*"})

LowerDiv == LowerOp({"/"})

\* var code = ir_to_js(values, result)
Emit ==
    /\ pc = "lower" /\ todo = <<>>
    /\ result' = stack[1]
    /\ out' = ir_to_js(values, stack[1])
    /\ pc' = "emitted"
    /\ UNCHANGED <<code, ast, values, todo, stack, error, prev, value, calls>>

\* return Function("z_re, z_im", code)
MakeFunction ==
    /\ pc = "emitted"
    /\ IF FunctionBodyOk(out)
       THEN pc' = "done" /\ error' = NoError
       ELSE pc' = "failed" /\ error' = SyntaxError("invalid function body")
    /\ UNCHANGED <<code, ast, values, todo, stack, result, out, prev, value, calls>>

\* the call is over: it returned the function or threw; its locals are gone
Finish ==
    /\ pc \in {"done", "parsed", "built", "evaluated", "failed"}
    /\ pc' = "idle"
    /\ code' = ""
    /\ ast' = NoAst
    /\ values' = <<>>
    /\ todo' = <<>>
    /\ stack' = <<>>
    /\ result' = NoResult
    /\ out' = ""
    /\ error' = NoError
    /\ value' = NoValue
    /\ calls' = <<>>
    /\ UNCHANGED prev

Next ==
    \/ Start
    \/ LowerNumber
    \/ LowerName
    \/ LowerAddSub
    \/ LowerMul
    \/ LowerDiv
    \/ Emit
    \/ MakeFunction
    \/ Finish

Spec == Init /\ [][Next]_vars

(***************************************************************************)
(* convertToJSON(code), which is parse(code), on raw source texts.         *)
(***************************************************************************)
Chars == {"1", "z", "+", "-", "*", "/", "(", ")"}

\* the texts of exactly k characters
RECURSIVE Texts(_)
Texts(k) ==
    IF k = 0 THEN {""} ELSE {t \o c : t \in Texts(k - 1), c \in Chars}

ParseExamples ==
    {"(1 + 2) / 3", "2 + 2", "1 * 2 + 3 * 4 + 5 / 6", "1 / ((z + 1) * (z - 1))",
     "   1   * 24 +\n\n  pi", "1 - 2 - 3", "1 / 2 / 3", "1 + 2 * 3", "1 $ 2"}

RawInputs == UNION {Texts(k) : k \in 0..MaxLen} \cup ParseExamples

convertToJSON(c) ==
    /\ code' = c
    /\ \E p \in {parse(c)} :
       IF p.ok
       THEN ast' = p.expr /\ error' = NoError /\ pc' = "parsed"
       ELSE ast' = NoAst /\ error' = p.error /\ pc' = "failed"
    /\ UNCHANGED <<values, todo, stack, result, out, prev, value, calls>>

ConvertToJSON == pc = "idle" /\ \E c \in RawInputs : convertToJSON(c)

NextParse == ConvertToJSON \/ Finish

SpecParse == Init /\ [][NextParse]_vars

(***************************************************************************)
(* One call after another, an earlier one remembered.  What a call leaves  *)
(* behind stays where it is until the next call begins.                    *)
(***************************************************************************)
RepeatInputs ==
    {Unparse(t) : t \in UNION {Trees(k, CoreLeaves) : k \in 0..1}} \cup Examples

StartAgain == pc = "idle" /\ \E c \in RepeatInputs : Begin(c)

\* the call is over and is the one remembered from now on
Remember ==
    /\ pc \in {"done", "failed"}
    /\ prev' = [code |-> code, pc |-> pc, out |-> out, error |-> error]
    /\ pc' = "idle"
    /\ UNCHANGED <<code, ast, values, todo, stack, result, out, error,
                   value, calls>>

\* the call is over
Leave ==
    /\ pc \in {"done", "failed"}
    /\ pc' = "idle"
    /\ UNCHANGED <<code, ast, values, todo, stack, result, out, error, prev, value, calls>>

NextRepeat ==
    \/ StartAgain
    \/ LowerNumber
    \/ LowerName
    \/ LowerAddSub
    \/ LowerMul
    \/ LowerDiv
    \/ Emit
    \/ MakeFunction
    \/ Remember
    \/ Leave

SpecRepeat == Init /\ [][NextRepeat]_vars

(***************************************************************************)
(* The streaming parser parse(code, out) and convertToAST.  A parsing      *)
(* function returns [ok |-> TRUE, expr, position, calls] or, when it       *)
(* throws, [ok |-> FALSE, error, calls]; calls is the list of the calls    *)
(* of out's methods made so far, each with the position it was made at.    *)
(***************************************************************************)
\* the object astBuilder of convertToAST: what out[method](args) returns
astBuilder(method, args) ==
    IF method = "number" THEN [type |-> "number", value |-> args[1]]
    ELSE IF method = "name" THEN [type |-> "name", name |-> args[1]]
    ELSE [type |-> method, left |-> args[1], right |-> args[2]]

\* out[method](args), for the object out that builder names
Invoke(builder, method, args) ==
    CASE builder = "astBuilder" -> astBuilder(method, args)

\* the list of calls after out[method](args) at position
Called(log, method, args, position) ==
    Append(log, [method |-> method, args |-> args, position |-> position])

ThrowAfter(err, log) == [ok |-> FALSE, error |-> err, calls |-> log]

\* return out[method](args) at position
ReturnOut(builder, method, args, position, log) ==
    [ok |-> TRUE, expr |-> Invoke(builder, method, args), position |-> position,
     calls |-> Called(log, method, args, position)]

RECURSIVE parsePrimaryExprOut(_, _, _, _), parseMulLoopOut(_, _, _, _, _),
          parseMulExprOut(_, _, _, _), parseExprLoopOut(_, _, _, _, _),
          parseExprOut(_, _, _, _)

parsePrimaryExprOut(tokens, builder, position, log) ==
    LET t == peek(tokens, position) IN
    IF isNumberToken(t)
    THEN ReturnOut(builder, "number", <<t>>, position + 1, log)
    ELSE IF isName(t)
    THEN ReturnOut(builder, "name", <<t>>, position + 1, log)
    ELSE IF t = "("
    THEN Let(parseExprOut(tokens, builder, position + 1, log), LAMBDA e :
         IF ~e.ok THEN e
         ELSE IF peek(tokens, e.position) # ")"
         THEN ThrowAfter(SyntaxError("expected )"), e.calls)
         ELSE [ok |-> TRUE, expr |-> e.expr, position |-> e.position + 1,
               calls |-> e.calls])
    ELSE ThrowAfter(SyntaxError("expected a number, a variable, or parentheses"),
                    log)

\* the loop of parseMulExpr handing the operands to out the wrong way round
parseMulLoopOut_Swapped(tokens, builder, expr, position, log) ==
    LET t == peek(tokens, position) IN
    IF t = "*" \/ t = "/"
    THEN Let(parsePrimaryExprOut(tokens, builder, position + 1, log), LAMBDA rhs :
         IF ~rhs.ok THEN rhs
         ELSE Let(ReturnOut(builder, IF t = "*" THEN "mul" ELSE "div",
                            <<rhs.expr, expr>>, rhs.position, rhs.calls),
                  LAMBDA e :
              parseMulLoopOut(tokens, builder, e.expr, e.position, e.calls)))
    ELSE [ok |-> TRUE, expr |-> expr, position |-> position, calls |-> log]

\* the while loop of parseMulExpr, entered with expr parsed up to position
parseMulLoopOut(tokens, builder, expr, position, log) ==
    LET t == peek(tokens, position) IN
    IF t = "*" \/ t = "/"
    THEN Let(parsePrimaryExprOut(tokens, builder, position + 1, log), LAMBDA rhs :
         IF ~rhs.ok THEN rhs
         ELSE Let(ReturnOut(builder, IF t = "*" THEN "mul" ELSE "div",
                            <<expr, rhs.expr>>, rhs.position, rhs.calls),
                  LAMBDA e :
              parseMulLoopOut(tokens, builder, e.expr, e.position, e.calls)))
    ELSE [ok |-> TRUE, expr |-> expr, position |-> position, calls |-> log]

parseMulExprOut(tokens, builder, position, log) ==
    Let(parsePrimaryExprOut(tokens, builder, position, log), LAMBDA e :
    IF ~e.ok THEN e
    ELSE parseMulLoopOut(tokens, builder, e.expr, e.position, e.calls))

\* the while loop of parseExpr, entered with expr parsed up to position
parseExprLoopOut(tokens, builder, expr, position, log) ==
    LET t == peek(tokens, position) IN
    IF t = "+" \/ t = "-"
    THEN Let(parseMulExprOut(tokens, builder, position + 1, log), LAMBDA rhs :
         IF ~rhs.ok THEN rhs
         ELSE Let(ReturnOut(builder, IF t = "+" THEN "add" ELSE "sub",
                            <<expr, rhs.expr>>, rhs.position, rhs.calls),
                  LAMBDA e :
              parseExprLoopOut(tokens, builder, e.expr, e.position, e.calls)))
    ELSE [ok |-> TRUE, expr |-> expr, position |-> position, calls |-> log]

parseExprOut(tokens, builder, position, log) ==
    Let(parseMulExprOut(tokens, builder, position, log), LAMBDA e :
    IF ~e.ok THEN e
    ELSE parseExprLoopOut(tokens, builder, e.expr, e.position, e.calls))

\* parse(code, out)
parseOut(c, builder) ==
    Let(tokenize(c), LAMBDA tokens :
    Let(parseExprOut(tokens, builder, 0, <<>>), LAMBDA r :
    IF ~r.ok THEN r
    ELSE IF r.position # Len(tokens)
    THEN ThrowAfter(SyntaxError("unexpected '" \o peek(tokens, r.position) \o "'"),
                    r.calls)
    ELSE r))

convertToAST(c) ==
    /\ code' = c
    /\ \E p \in {parseOut(c, "astBuilder")} :
       /\ calls' = p.calls
       /\ IF p.ok
          THEN value' = p.expr /\ error' = NoError /\ pc' = "built"
          ELSE value' = NoValue /\ error' = p.error /\ pc' = "failed"
    /\ UNCHANGED <<ast, values, todo, stack, result, out, prev>>

ConvertToAST == pc = "idle" /\ \E c \in RawInputs : convertToAST(c)

NextStream == ConvertToAST \/ Finish

SpecStream == Init /\ [][NextStream]_vars

(***************************************************************************)
(* evaluateAsFraction.  A BigInteger is an integer; a Fraction is a        *)
(* record [n, d].  A function that may throw returns                       *)
(* [ok |-> TRUE, value] or [ok |-> FALSE, error].                          *)
(***************************************************************************)
\* a.divide(b) for b # 0: the quotient rounded towards zero
BigDivide(a, b) == Sign(a) * Sign(b) * (Abs(a) \div Abs(b))

\* a.remainder(b) for b # 0: what a.divide(b) leaves, with the sign of a
BigRemainder(a, b) == a - b * BigDivide(a, b)

\* new BigInteger(s) for a run of decimal digits
BigInteger(s) == DigitsVal(s, 0)

RECURSIVE gcd(_, _)
gcd(a, b) == IF b = 0 THEN a ELSE gcd(b, BigRemainder(a, b))

Returned(v) == [ok |-> TRUE, value |-> v]

\* new Fraction(n, d); divide throws when the gcd is zero
Fraction(n, d) ==
    Let(gcd(Abs(n), d), LAMBDA x :
    IF x = 0 THEN Throw([name |-> "Error", message |-> "Divide by zero"])
    ELSE Returned([n |-> BigDivide(n, x), d |-> BigDivide(d, x)]))

\* this.add(x)
Fraction_add(this, x) == Fraction(this.n * x.d + x.n * this.d, this.d * x.d)

\* this.negate()
Fraction_negate(this) == Fraction(-this.n, this.d)

\* this.sub(x)
Fraction_sub(this, x) ==
    Let(Fraction_negate(x), LAMBDA m :
    IF ~m.ok THEN m ELSE Fraction_add(this, m.value))

\* this.mul(x)
Fraction_mul(this, x) == Fraction(this.n * x.n, this.d * x.d)

\* this.div(x)
Fraction_div(this, x) == Fraction(this.n * x.d, this.d * x.n)

\* this.toString()
Fraction_toString(this) ==
    IF ToString(this.d) = "1" THEN ToString(this.n)
    ELSE ToString(this.n) \o "/" \o ToString(this.d)

\* the function evaluate of evaluateAsFraction
RECURSIVE evaluateFraction(_)
evaluateFraction(obj) ==
    IF obj.type = "number" THEN Fraction(BigInteger(obj.value), 1)
    ELSE IF obj.type = "name"
    THEN Throw(SyntaxError("no variables in fraction mode, sorry"))
    ELSE Let(evaluateFraction(obj.left), LAMBDA l :
         IF ~l.ok THEN l
         ELSE Let(evaluateFraction(obj.right), LAMBDA r :
              IF ~r.ok THEN r
              ELSE IF obj.type = "+" THEN Fraction_add(l.value, r.value)
              ELSE IF obj.type = "-" THEN Fraction_sub(l.value, r.value)
              ELSE IF obj.type = "*" THEN Fraction_mul(l.value, r.value)
              ELSE Fraction_div(l.value, r.value)))

\* evaluateAsFraction(c).toString()
evaluateAsFraction(c) ==
    /\ code' = c
    /\ \E p \in {parse(c)} :
       IF ~p.ok
       THEN /\ ast' = NoAst /\ value' = NoValue /\ out' = ""
            /\ error' = p.error /\ pc' = "failed"
       ELSE /\ ast' = p.expr
            /\ \E f \in {evaluateFraction(p.expr)} :
               IF f.ok
               THEN /\ value' = f.value
                    /\ out' = Fraction_toString(f.value)
                    /\ error' = NoError /\ pc' = "evaluated"
               ELSE /\ value' = NoValue /\ out' = ""
                    /\ error' = f.error /\ pc' = "failed"
    /\ UNCHANGED <<values, todo, stack, result, prev, calls>>

\* the integer literals of the enumerated formulas
FractionLiterals == {"0", "1", "2", "3"}

FractionInputs ==
    {Unparse(t) :
        t \in UNION {Trees(k, {[type |-> "number", value |-> v] :
                                  v \in FractionLiterals}) : k \in 0..MaxOps}}
    \cup {"1 / 3", "(2/3) * (3/2)", "1/7 + 4/7 + 2/7", "6/4", "z + 1", "1 +"}

EvaluateAsFraction == pc = "idle" /\ \E c \in FractionInputs : evaluateAsFraction(c)

NextFraction == EvaluateAsFraction \/ Finish

SpecFraction == Init /\ [][NextFraction]_vars

(***************************************************************************)
(* Properties.                                                             *)
(***************************************************************************)
Num(n) == <<n, 1>>

\* the real and imaginary parts the emitted function is applied to
Args == {Num(-1), Num(0), Num(1), Num(2)}

\* the formula uses no identifier but z and i
RECURSIVE OnlyZI(_)
OnlyZI(obj) ==
    IF obj.type = "number" THEN TRUE
    ELSE IF obj.type = "name" THEN obj.id \in {"z", "i"}
    ELSE OnlyZI(obj.left) /\ OnlyZI(obj.right)

\* the complex number the formula denotes at z = z_re + z_im*i
RECURSIVE ComplexEval(_, _, _)
ComplexEval(obj, z_re, z_im) ==
    IF obj.type = "number" THEN [re |-> Number(obj.value), im |-> Num(0)]
    ELSE IF obj.type = "name"
    THEN (IF obj.id = "i" THEN [re |-> Num(0), im |-> Num(1)]
                          ELSE [re |-> z_re, im |-> z_im])
    ELSE LET a == ComplexEval(obj.left, z_re, z_im)
             b == ComplexEval(obj.right, z_re, z_im)
             d == NumAdd(NumMul(b.re, b.re), NumMul(b.im, b.im))
         IN  IF obj.type = "+"
             THEN [re |-> NumAdd(a.re, b.re), im |-> NumAdd(a.im, b.im)]
             ELSE IF obj.type = "-"
             THEN [re |-> NumSub(a.re, b.re), im |-> NumSub(a.im, b.im)]
             ELSE IF obj.type = "*"
             THEN [re |-> NumSub(NumMul(a.re, b.re), NumMul(a.im, b.im)),
                   im |-> NumAdd(NumMul(a.re, b.im), NumMul(a.im, b.re))]
             ELSE [re |-> NumDiv(NumAdd(NumMul(a.re, b.re), NumMul(a.im, b.im)), d),
                   im |-> NumDiv(NumSub(NumMul(a.im, b.re), NumMul(a.re, b.im)), d)]

Parsed == ast # NoAst
Over == pc \in {"done", "failed"}
Emitted == pc \in {"emitted", "done"}

\* C1: round-trip identity.  Every call on a formula built only from z, i,
\* numeric literals and + - * / succeeds, and the function it returns maps
\* every pair (z_re, z_im) to the complex value of the formula at
\* z = z_re + z_im*i.
C1_RoundTrip ==
    (Over /\ Parsed /\ OnlyZI(ast)) =>
        /\ pc = "done"
        /\ \A z_re \in Args, z_im \in Args :
               Call(values, result, z_re, z_im) = ComplexEval(ast, z_re, z_im)

\* C2: compiling "(z+1)/(z-1)" and applying the result to z_re = 2,
\* z_im = 0 returns re = 3 and im = 0.
C2_Example ==
    (Over /\ code = "(z+1)/(z-1)") =>
        /\ pc = "done"
        /\ Call(values, result, Num(2), Num(0)) = [re |-> Num(3), im |-> Num(0)]

C2_Witness == pc = "done" /\ code = "(z+1)/(z-1)"

DocText ==
    "var t0 = (z_re+1);\nvar t1 = (z_re-1);\nvar t2 = (z_im*z_im);\n"
    \o "var t3 = ((t1*t1)+t2);\n"
    \o "return {re: (((t0*t1)+t2)/t3), im: (((z_im*t1)-(t0*z_im))/t3)};\n"

\* C3: compiling "(z+1)/(z-1)" emits exactly the program text of the
\* documentation comment: four assignments to t0..t3 and the return.
C3_DocOutput == (Emitted /\ code = "(z+1)/(z-1)") => out = DocText

Indices == 0..(Len(values) - 1)

\* C4: the value table never holds two entries with the same type, arg0
\* and arg1; compiling "(z+1)*(z+1)" yields exactly one '+' entry for
\* z_re+1, and a '*' entry has its index as both operands.
C4_CSE ==
    /\ \A i \in Indices, j \in Indices :
           i < j => ~valuesEqual(At(values, i), At(values, j))
    /\ (Emitted /\ code = "(z+1)*(z+1)") =>
           \E p \in Indices :
               /\ At(values, p).type = "+"
               /\ At(values, p).arg0 = 0
               /\ isOne(values, At(values, p).arg1)
               /\ \A q \in Indices : At(values, q).type = "+" /\ At(values, q).arg0 = 0
                                        => q = p
               /\ \E m \in Indices : /\ At(values, m).type = "*"
                                     /\ At(values, m).arg0 = p
                                     /\ At(values, m).arg1 = p

C4_Witness == pc = "done" /\ code = "(z+1)*(z+1)"

\* the formula is built from numeric literals and i with + - *
RECURSIVE ConstFormula(_)
ConstFormula(obj) ==
    IF obj.type = "number" THEN TRUE
    ELSE IF obj.type = "name" THEN obj.id = "i"
    ELSE obj.type \in {"+", "-", "*"}
         /\ ConstFormula(obj.left) /\ ConstFormula(obj.right)

\* C5: constant folding.  For a formula of numeric literals and i with
\* + - *, both results are constants and the program is one return of two
\* literals; for "2*3" the literals are 6 and 0.
C5_ConstantFolding ==
    (Parsed /\ ConstFormula(ast)) =>
        /\ pc # "failed"
        /\ Emitted =>
              /\ isNumber(values, result.re)
              /\ isNumber(values, result.im)
              /\ out = "return {re: " \o At(values, result.re).arg0
                       \o ", im: " \o At(values, result.im).arg0 \o "};\n"
              /\ code = "2*3" => out = "return {re: 6, im: 0};\n"

C5_Witness ==
    /\ pc = "done" /\ ConstFormula(ast) /\ ast.type = "*"
    /\ At(values, result.re).arg0 = "6"

\* all the operator entries of a table, in table order
RECURSIVE BinaryEntries(_)
BinaryEntries(vals) ==
    IF vals = <<>> THEN <<>>
    ELSE IF Head(vals).type \in binaryOps
    THEN <<Head(vals)>> \o BinaryEntries(Tail(vals))
    ELSE BinaryEntries(Tail(vals))

IsNumberNode(obj, text) == obj.type = "number" /\ obj.value = text

\* the formula is e*1, e+0, e-0 or e/1
IdentityForm(obj) ==
    /\ obj.type \in binaryOps
    /\ \/ obj.type \in {"*", "/"} /\ IsNumberNode(obj.right, "1")
       \/ obj.type \in {"+", "-"} /\ IsNumberNode(obj.right, "0")

\* C6: identity elision.  Compiling e*1, e+0, e-0 or e/1 emits the program
\* text compiling e emits and puts no operator entry in the table that
\* compiling e does not; "z*1" emits return {re: z_re, im: z_im}.
C6_IdentityElision ==
    (Emitted /\ IdentityForm(ast)) =>
        LET e == lower(InitialValues, ast.left) IN
        /\ e.ok
        /\ out = ir_to_js(e.values, e)
        /\ BinaryEntries(values) = BinaryEntries(e.values)
        /\ code = "z*1" => out = "return {re: z_re, im: z_im};\n"

C6_Witness ==
    /\ pc = "done" /\ IdentityForm(ast) /\ ast.left.type \in binaryOps
    /\ BinaryEntries(values) # <<>>

\* the identifiers of the formula other than z and i, in the order lower
\* meets them
RECURSIVE Undefined(_)
Undefined(obj) ==
    IF obj.type = "number" THEN <<>>
    ELSE IF obj.type = "name"
    THEN (IF obj.id \in {"z", "i"} THEN <<>> ELSE <<obj.id>>)
    ELSE Undefined(obj.left) \o Undefined(obj.right)

HasUndefined == Parsed /\ Undefined(ast) # <<>>

ZeroDivisor(obj) ==
    /\ obj.type = "/"
    /\ LET a == lower(InitialValues, obj.left) IN
       /\ a.ok
       /\ LET b == lower(a.values, obj.right) IN
          b.ok /\ isZero(b.values, b.re) /\ isZero(b.values, b.im)

\* C9: division by zero is never a compile-time error.  A formula whose
\* divisor is or folds to the constant 0 compiles, and the division stays a
\* '/' entry of the table, with the constant 0 as its divisor, and a '/' of
\* the emitted text.
C9_DivisionByZeroKept ==
    (Parsed /\ ZeroDivisor(ast)) =>
        /\ pc # "failed"
        /\ Emitted =>
              /\ \A k \in {result.re, result.im} :
                     /\ At(values, k).type = "/"
                     /\ isZero(values, At(values, k).arg1)
              /\ Contains(out, "/")

C9_Witness ==
    pc = "done" /\ ZeroDivisor(ast) /\ ast.right.type = "-" /\ ast.left.type = "name"

\* C8: determinism and isolation.  The outcome of a call is a function of
\* the formula text alone: a call on the text of a remembered earlier call
\* ends as that call did, with the same program text or the same error,
\* whatever calls were made in between.
C8_Determinism ==
    (prev.pc # "idle" /\ prev.code = code) =>
        /\ Emitted => out = prev.out
        /\ Over => pc = prev.pc /\ out = prev.out /\ error = prev.error

C8_Witness ==
    /\ pc = "done" /\ prev.pc = "done" /\ prev.code = code
    /\ code = "(z+1)/(z-1)" /\ values # <<>>

\* the tree of a token sequence by the grammar
\*   Expr: MulExpr | Expr (+|-) MulExpr,  MulExpr: Primary | MulExpr (*|/) Primary,
\*   Primary: Number | Name | ( Expr ),
\* or NoAst when the sequence is no Expr
RECURSIVE RefExpr(_), RefMulExpr(_), RefPrimary(_)
RefPrimary(ts) ==
    IF Len(ts) = 1 /\ (isNumberToken(ts[1]) \/ isName(ts[1]))
    THEN (IF isNumberToken(ts[1]) THEN [type |-> "number", value |-> ts[1]]
                                  ELSE [type |-> "name", id |-> ts[1]])
    ELSE IF Len(ts) >= 3 /\ ts[1] = "(" /\ ts[Len(ts)] = ")"
    THEN RefExpr(SubSeq(ts, 2, Len(ts) - 1))
    ELSE NoAst

RefMulExpr(ts) ==
    LET ks == {k \in 2..(Len(ts) - 1) :
                  /\ ts[k] \in {"*", "/"}
                  /\ RefPrimary(SubSeq(ts, k + 1, Len(ts))) # NoAst
                  /\ RefMulExpr(SubSeq(ts, 1, k - 1)) # NoAst}
    IN  IF ks = {} THEN RefPrimary(ts)
        ELSE LET k == CHOOSE k \in ks : TRUE
             IN  [type |-> ts[k], left |-> RefMulExpr(SubSeq(ts, 1, k - 1)),
                  right |-> RefPrimary(SubSeq(ts, k + 1, Len(ts)))]

RefExpr(ts) ==
    LET ks == {k \in 2..(Len(ts) - 1) :
                  /\ ts[k] \in {"+", "-"}
                  /\ RefMulExpr(SubSeq(ts, k + 1, Len(ts))) # NoAst
                  /\ RefExpr(SubSeq(ts, 1, k - 1)) # NoAst}
    IN  IF ks = {} THEN RefMulExpr(ts)
        ELSE LET k == CHOOSE k \in ks : TRUE
             IN  [type |-> ts[k], left |-> RefExpr(SubSeq(ts, 1, k - 1)),
                  right |-> RefMulExpr(SubSeq(ts, k + 1, Len(ts)))]

\* C10: parse builds the tree with * and / binding tighter than + and -,
\* equal precedence associating to the left and parentheses grouping, and
\* throws a SyntaxError unless the whole token sequence is one expression;
\* "(1 + 2) / 3" yields {"/", {"+", 1, 2}, 3}.
C10_Parse ==
    /\ pc = "parsed" =>
          /\ ast # NoAst
          /\ ast = RefExpr(tokenize(code))
    /\ (pc = "failed" /\ ast = NoAst) =>
          /\ RefExpr(tokenize(code)) = NoAst
          /\ error.name = "SyntaxError"
    /\ (pc \in {"parsed", "failed"} /\ code = "(1 + 2) / 3") =>
          ast = [type |-> "/",
                 left |-> [type |-> "+",
                           left |-> [type |-> "number", value |-> "1"],
                           right |-> [type |-> "number", value |-> "2"]],
                 right |-> [type |-> "number", value |-> "3"]]

C10_Witness == pc = "parsed" /\ code = "(1 + 2) / 3"

(***************************************************************************)
(* The streaming parser and the AST parser.                                *)
(***************************************************************************)
OperatorTag(type) ==
    CASE type = "add" -> "+" [] type = "sub" -> "-"
      [] type = "mul" -> "*" [] type = "div" -> "/"

\* the tree astBuilder made with the operator tags of the AST parser
RECURSIVE Retag(_)
Retag(t) ==
    IF t.type \in {"number", "name"} THEN t
    ELSE [type |-> OperatorTag(t.type),
          left |-> Retag(t.left), right |-> Retag(t.right)]

\* the same, a name kept in the field id as the AST parser keeps it
RECURSIVE RetagNames(_)
RetagNames(t) ==
    IF t.type = "number" THEN t
    ELSE IF t.type = "name" THEN [type |-> "name", id |-> t.name]
    ELSE [type |-> OperatorTag(t.type),
          left |-> RetagNames(t.left), right |-> RetagNames(t.right)]

StreamOver == pc \in {"built", "failed"}

\* the calls were made in one pass from left to right: a call for a token is
\* made right after that token, the tokens in their order, and an operator's
\* call when both its operands have been returned by earlier calls
OnePass ==
    /\ \A j \in 1..(Len(calls) - 1) : calls[j].position <= calls[j + 1].position
    /\ \A j \in 1..Len(calls) :
         IF calls[j].method \in {"number", "name"}
         THEN /\ tokenize(code)[calls[j].position] = calls[j].args[1]
              /\ \A k \in 1..(j - 1) :
                   calls[k].method \in {"number", "name"}
                       => calls[k].position < calls[j].position
         ELSE \A a \in 1..2 : \E k \in 1..(j - 1) :
                  astBuilder(calls[k].method, calls[k].args) = calls[j].args[a]

\* C11 as stated: convertToAST(code) returns the tree parse(code) returns, up
\* to the operator tag names, and throws a SyntaxError exactly when
\* parse(code) does; the builder's methods are called in one left-to-right
\* pass, operands before their operator.
C11_StreamingParser ==
    StreamOver =>
        /\ (pc = "built") = parse(code).ok
        /\ pc = "built" => Retag(value) = parse(code).expr
        /\ pc = "failed" => error.name = "SyntaxError"
        /\ OnePass

\* C11 amended: the trees are the same up to the operator tag names and the
\* field of a name node (name in the builder's tree, id in the AST parser's);
\* the SyntaxError thrown is the one parse(code) throws; the builder's
\* methods are called in one left-to-right pass, operands before operators.
C11_StreamingParserNames ==
    StreamOver =>
        /\ (pc = "built") = parse(code).ok
        /\ pc = "built" => RetagNames(value) = parse(code).expr
        /\ pc = "failed" => error.name = "SyntaxError" /\ error = parse(code).error
        /\ OnePass

C11_Witness ==
    /\ pc = "built"
    /\ code = "1 / ((z + 1) * (z - 1))"
    /\ Len(calls) = 9
    /\ calls[9].method = "div"

(***************************************************************************)
(* Fractions.                                                              *)
(***************************************************************************)
\* C12: for every formula of integer literals that evaluateAsFraction
\* evaluates, the Fraction is in lowest terms with a positive denominator
\* (d > 0, gcd(|n|, d) = 1), and toString prints the numerator alone when
\* the value is an integer and "n/d" otherwise; "(2/3) * (3/2)" prints "1".
C12_LowestTerms ==
    pc = "evaluated" =>
        /\ value.d > 0
        /\ GCD(Abs(value.n), value.d) = 1
        /\ out = IF value.d = 1 THEN ToString(value.n)
                 ELSE ToString(value.n) \o "/" \o ToString(value.d)
        /\ code = "(2/3) * (3/2)" => out = "1"

(***************************************************************************)
(* The emitted program text, read back statement by statement.             *)
(***************************************************************************)
\* the position of the first occurrence of t in s, or 0
IndexOf(s, t) ==
    IF Contains(s, t)
    THEN CHOOSE k \in 1..(Len(s) - Len(t) + 1) :
             /\ SubSeq(s, k, k + Len(t) - 1) = t
             /\ \A j \in 1..(k - 1) : SubSeq(s, j, j + Len(t) - 1) # t
    ELSE 0

\* the lines of a text whose every line ends with a newline
RECURSIVE Lines(_)
Lines(text) ==
    IF IndexOf(text, "\n") = 0 THEN <<>>
    ELSE <<SubSeq(text, 1, IndexOf(text, "\n") - 1)>>
         \o Lines(SubSeq(text, IndexOf(text, "\n") + 1, Len(text)))

Statements == Lines(out)

IsAssignment(line) == Len(line) >= 4 /\ SubSeq(line, 1, 4) = "var "

IsReturn(line) == Len(line) >= 7 /\ SubSeq(line, 1, 7) = "return "

\* the name and the right-hand side of the statement "var name = rhs;"
AssignedName(line) == SubSeq(line, 5, IndexOf(line, " = ") - 1)

RightHandSide(line) == SubSeq(line, IndexOf(line, " = ") + 3, Len(line) - 1)

Assignments == SelectSeq(Statements, IsAssignment)

\* C13: in every emitted program no argument and no constant is bound to a
\* temporary: the right-hand side of every assignment is an operator
\* expression, which the emitter writes in parentheses.
C13_NoTemporaryForLeaves ==
    Emitted =>
        \A k \in 1..Len(Assignments) :
            /\ Head(RightHandSide(Assignments[k])) = "("
            /\ RightHandSide(Assignments[k]) \notin {"z_re", "z_im"}

\* the array js of ir_to_js when its loop is over
FinalJs ==
    irLoop(values, computeUseCounts(values), 0,
           [js |-> <<>>, code |-> "", next_temp_id |-> 0]).js

\* entry i is bound to a temporary: js[i] is a name, not its expression
Bound(i) == Head(FinalJs[i + 1]) = "t"

\* the operand slots of operator entries that hold i
OperandUses(i) ==
    Cardinality({k \in Indices : At(values, k).type \in binaryOps
                                 /\ At(values, k).arg0 = i})
    + Cardinality({k \in Indices : At(values, k).type \in binaryOps
                                   /\ At(values, k).arg1 = i})

\* the final result positions that hold i
ResultUses(i) ==
    (IF result.re = i THEN 1 ELSE 0) + (IF result.im = i THEN 1 ELSE 0)

\* C14: the use count of an index is the number of operand slots that hold
\* it plus one for each final result position that holds it, and an operator
\* entry is bound to a temporary exactly when its use count exceeds 1.
C14_UseCounts ==
    Emitted =>
        \A i \in Indices :
            At(values, i).type \in binaryOps =>
                (Bound(i) <=> OperandUses(i) + ResultUses(i) > 1)

\* the index of the entry a statement binds: the k-th assignment binds the
\* k-th entry whose use count exceeds 1
BoundIndices ==
    SelectSeq([k \in 1..Len(values) |-> k - 1],
              LAMBDA i : computeUseCounts(values)[i] > 1)

\* the temporary names t0, t1, ... a text refers to
RECURSIVE NamesIn(_)
NamesIn(text) ==
    IF text = "" THEN {}
    ELSE IF Head(text) = "t" /\ Len(text) > 1 /\ Run(Tail(text), Digits) > 0
    THEN {SubSeq(text, 1, 1 + Run(Tail(text), Digits))}
         \cup NamesIn(SubSeq(text, 2 + Run(Tail(text), Digits), Len(text)))
    ELSE NamesIn(Tail(text))

\* what follows "return " in the last statement
ReturnedText(line) == SubSeq(line, 8, Len(line))

\* C15: the assignments come in increasing order of table index and are
\* followed by exactly one return statement, the last statement; every
\* temporary a right-hand side or the return statement refers to is
\* assigned by a strictly earlier statement.
C15_StatementOrder ==
    Emitted =>
        /\ Len(Statements) = Len(Assignments) + 1
        /\ IsReturn(Statements[Len(Statements)])
        /\ \A k \in 1..(Len(Statements) - 1) : IsAssignment(Statements[k])
        /\ Len(BoundIndices) = Len(Assignments)
        /\ \A k \in 1..Len(Assignments) :
             /\ AssignedName(Assignments[k]) = FinalJs[BoundIndices[k] + 1]
             /\ k > 1 => BoundIndices[k - 1] < BoundIndices[k]
             /\ \A n \in NamesIn(RightHandSide(Assignments[k])) :
                  \E j \in 1..(k - 1) : AssignedName(Assignments[j]) = n
        /\ \A n \in NamesIn(ReturnedText(Statements[Len(Statements)])) :
             \E j \in 1..Len(Assignments) : AssignedName(Assignments[j]) = n

C15_Witness ==
    /\ Emitted
    /\ code = "(z+1)/(z-1)"
    /\ Len(Assignments) = 7
    /\ NamesIn(RightHandSide(Assignments[7])) = {"t4", "t5"}

(***************************************************************************)
(* The value table.                                                        *)
(***************************************************************************)
\* C16: in every reachable state of the value table each operator entry at
\* index k has both operand indices strictly less than k, each the index of
\* an existing entry.
C16_Topological ==
    \A k \in Indices :
        At(values, k).type \in binaryOps =>
            /\ At(values, k).arg0 \in 0..(k - 1)
            /\ At(values, k).arg1 \in 0..(k - 1)
            /\ At(values, k).arg0 \in Indices
            /\ At(values, k).arg1 \in Indices

\* an operator entry with an operator entry as an operand, the call still
\* lowering
C16_Witness ==
    /\ pc = "lower"
    /\ \E k \in Indices :
         /\ At(values, k).type \in binaryOps
         /\ At(values, At(values, k).arg0).type \in binaryOps

IsPrefix(s, t) == Len(s) <= Len(t) /\ SubSeq(t, 1, Len(s)) = s

\* entries valueToIndex may be asked for: constants, and operators on the
\* first entries of the table
Candidates ==
    {[type |-> "number", arg0 |-> t, arg1 |-> null] : t \in {"0", "1", "7"}}
    \cup {[type |-> o, arg0 |-> a, arg1 |-> b] :
             o \in {"+", "*"}, a \in Indices \cap 0..2, b \in Indices \cap 0..2}

\* valueToIndex(v) on the table as it is: the index of an equal entry and
\* the table untouched, or v appended and the old length
FindsOrAppends ==
    \A v \in Candidates :
        IF \E i \in Indices : valuesEqual(At(values, i), v)
        THEN /\ valueToIndex(values, v).values = values
             /\ valueToIndex(values, v).index \in Indices
             /\ valuesEqual(At(values, valueToIndex(values, v).index), v)
        ELSE /\ valueToIndex(values, v).values = Append(values, v)
             /\ valueToIndex(values, v).index = Len(values)

\* C17: valueToIndex(v) returns the index of an entry equal to v and leaves
\* the table unchanged, or appends v as the last entry and returns the old
\* length; every entry keeps its index and contents, so the table after a
\* lowering step has the table before it as a prefix.
C17_Additive ==
    /\ [](values # <<>> => FindsOrAppends)
    /\ [][pc = "lower" => IsPrefix(values, values')]_vars

\* a table that grew by reuse and by appending
C17_Witness ==
    /\ pc = "lower" /\ todo = <<>>
    /\ code = "(z+1)*(z+1)"
    /\ Len(values) > 4
    /\ \E v \in Candidates : At(values, 3) = v

\* the two entries every table begins with
SeededEntries ==
    /\ Len(values) >= 2
    /\ At(values, 0) = [type |-> "arg", arg0 |-> "z_re", arg1 |-> null]
    /\ At(values, 1) = [type |-> "arg", arg0 |-> "z_im", arg1 |-> null]

\* lower is about to visit the name z
AtNameZ ==
    pc = "lower" /\ todo # <<>> /\ Head(todo) = [type |-> "name", id |-> "z"]

\* C18: every compilation starts with a table of exactly two entries, z_re
\* at index 0 and z_im at index 1; the two stay there in every reachable
\* state; lowering the name z returns the pair (0, 1) and leaves the table
\* as it is.
C18_SeededArguments ==
    /\ [](values # <<>> => SeededEntries)
    /\ [][(pc = "idle" /\ pc' # "idle") => (Len(values') = 2 /\ SeededEntries')]_vars
    /\ [][AtNameZ => (/\ values' = values
                      /\ stack' = Append(stack, [re |-> 0, im |-> 1]))]_vars

\* the name z lowered when the table has grown
C18_Witness ==
    /\ pc = "lower"
    /\ Len(values) > 2
    /\ stack # <<>>
    /\ stack[Len(stack)] = [re |-> 0, im |-> 1]
    /\ Len(todo) = 1
    /\ prev.pc # "idle"

\* C19: two constants are the same entry exactly when their texts are the
\* same: "1" and "01" are separate entries, and the simplifier treats as
\* zero and as one only the entries whose text is exactly "0" and "1".
C19_TextualConstants ==
    /\ \A i \in Indices, j \in Indices :
         (isNumber(values, i) /\ isNumber(values, j) /\ i # j)
             => At(values, i).arg0 # At(values, j).arg0
    /\ \A i \in Indices :
         isNumber(values, i) =>
             /\ num(values, At(values, i).arg0) = Same(values, i)
             /\ (mul(values, 0, i) = Same(values, i)) <=> (At(values, i).arg0 = "0")
             /\ (div(values, 0, i) = Same(values, 0)) <=> (At(values, i).arg0 = "1")
    /\ (pc = "lower" /\ code = "1+01" /\ Len(todo) = 1) =>
         \E i \in Indices, j \in Indices :
             /\ i # j
             /\ At(values, i) = [type |-> "number", arg0 |-> "1", arg1 |-> null]
             /\ At(values, j) = [type |-> "number", arg0 |-> "01", arg1 |-> null]
    /\ (Emitted /\ code = "z*01") =>
         /\ At(values, result.re).type = "*"
         /\ At(values, result.im).type = "*"
         /\ At(values, At(values, result.re).arg1).arg0 = "01"
    /\ (Emitted /\ code = "z*1") => result = [re |-> 0, im |-> 1]
    /\ (Emitted /\ code = "z+00") =>
         /\ At(values, result.re).type = "+"
         /\ At(values, At(values, result.re).arg1).arg0 = "00"
    /\ (pc = "lower" /\ code = "0+00" /\ Len(todo) = 1) =>
         \E i \in Indices, j \in Indices :
             /\ i # j
             /\ At(values, i) = [type |-> "number", arg0 |-> "0", arg1 |-> null]
             /\ At(values, j) = [type |-> "number", arg0 |-> "00", arg1 |-> null]

C19_Witness == pc = "done" /\ code = "z*01" /\ Len(values) = 6

(***************************************************************************)
(* The simplifier, rule by rule.                                           *)
(***************************************************************************)
\* entry i is the constant written t
IsConstant(i, t) ==
    At(values, i) = [type |-> "number", arg0 |-> t, arg1 |-> null]

BothConstants(a, b) ==
    At(values, a).type = "number" /\ At(values, b).type = "number"

\* r is the outcome of interning v: its index holds v, in the table as it
\* was or with v appended
InternedAs(r, v) ==
    /\ r.index \in 0..(Len(r.values) - 1)
    /\ At(r.values, r.index) = v
    /\ \/ r.values = values
       \/ (r.values = Append(values, v) /\ r.index = Len(values))

Unchanged(r, i) == r.values = values /\ r.index = i

\* the product of the constants a and b is written out in full by String
ProductInModel(a, b) ==
    BothConstants(a, b) =>
        ExactDecimal(NumMul(Number(At(values, a).arg0),
                            Number(At(values, b).arg0)))

\* C20: mul(a, b) applies its rules in this order, the first that matches:
\* a the constant 0 -> a; b the constant 0 -> b; a the constant 1 -> b;
\* b the constant 1 -> a; both constants -> the constant of the product;
\* otherwise the interned '*' entry (a, b).  A product with a zero operand
\* returns the index of the "0" entry and adds nothing to the table.
C20_MulRules ==
    pc = "lower" =>
        \A a \in Indices, b \in Indices :
            ProductInModel(a, b) =>
                IF IsConstant(a, "0") THEN Unchanged(mul(values, a, b), a)
                ELSE IF IsConstant(b, "0") THEN Unchanged(mul(values, a, b), b)
                ELSE IF IsConstant(a, "1") THEN Unchanged(mul(values, a, b), b)
                ELSE IF IsConstant(b, "1") THEN Unchanged(mul(values, a, b), a)
                ELSE IF BothConstants(a, b)
                THEN InternedAs(mul(values, a, b),
                                [type |-> "number",
                                 arg0 |-> String(NumMul(Number(At(values, a).arg0),
                                                        Number(At(values, b).arg0))),
                                 arg1 |-> null])
                ELSE InternedAs(mul(values, a, b),
                                [type |-> "*", arg0 |-> a, arg1 |-> b])

\* a table with the constants 0, 1 and 01 and a '*' entry
C20_Witness ==
    /\ pc = "lower"
    /\ \E z \in Indices, o \in Indices, p \in Indices, m \in Indices :
         /\ IsConstant(z, "0") /\ IsConstant(o, "1") /\ IsConstant(p, "01")
         /\ At(values, m).type = "*"

\* the number the constant at index i is read as
NumberAt(i) == Number(At(values, i).arg0)

\* the constant written as String writes x
ConstantOf(x) == [type |-> "number", arg0 |-> String(x), arg1 |-> null]

\* C21: div(a, b) returns a when b is the constant 1; otherwise, both being
\* constants and b not the constant 0, the constant of the quotient;
\* otherwise the interned '/' entry (a, b).  No rule simplifies a zero
\* dividend, and a constant-zero divisor always yields a '/' entry.
C21_DivRules ==
    pc = "lower" =>
        \A a \in Indices, b \in Indices :
            /\ IF IsConstant(b, "1") THEN Unchanged(div(values, a, b), a)
               ELSE IF BothConstants(a, b) /\ ~IsConstant(b, "0")
               THEN ExactDecimal(NumDiv(NumberAt(a), NumberAt(b))) =>
                        InternedAs(div(values, a, b),
                                   ConstantOf(NumDiv(NumberAt(a), NumberAt(b))))
               ELSE InternedAs(div(values, a, b),
                               [type |-> "/", arg0 |-> a, arg1 |-> b])
            /\ IsConstant(b, "0") =>
                   At(div(values, a, b).values, div(values, a, b).index)
                       = [type |-> "/", arg0 |-> a, arg1 |-> b]
            /\ (IsConstant(a, "0") /\ ~BothConstants(a, b)) =>
                   At(div(values, a, b).values, div(values, a, b).index)
                       = [type |-> "/", arg0 |-> a, arg1 |-> b]

\* a table with the constants 0, 1 and 2 where a quotient was folded
C21_Witness ==
    /\ pc = "lower" /\ todo = <<>>
    /\ code = "1/2"
    /\ \E z \in Indices, o \in Indices, t \in Indices, h \in Indices :
         /\ IsConstant(z, "0") /\ IsConstant(o, "1") /\ IsConstant(t, "2")
         /\ IsConstant(h, "0.5")

\* C22: add(a, b) returns b when a is the constant 0, else a when b is the
\* constant 0, else the constant of the sum when both are constants, else
\* the interned '+' entry (a, b); the operand order is kept, so a+b and b+a
\* with distinct operands that are not constants are different entries.
C22_AddRules ==
    pc = "lower" =>
        \A a \in Indices, b \in Indices :
            /\ IF IsConstant(a, "0") THEN Unchanged(add(values, a, b), b)
               ELSE IF IsConstant(b, "0") THEN Unchanged(add(values, a, b), a)
               ELSE IF BothConstants(a, b)
               THEN ExactDecimal(NumAdd(NumberAt(a), NumberAt(b))) =>
                        InternedAs(add(values, a, b),
                                   ConstantOf(NumAdd(NumberAt(a), NumberAt(b))))
               ELSE InternedAs(add(values, a, b),
                               [type |-> "+", arg0 |-> a, arg1 |-> b])
            /\ (a # b /\ At(values, a).type # "number"
                      /\ At(values, b).type # "number") =>
                   add(add(values, a, b).values, b, a).index
                       # add(values, a, b).index

\* a table with a constant 0, a folded sum and a '+' entry
C22_Witness ==
    /\ pc = "lower" /\ todo = <<>>
    /\ code = "(1+2)+z"
    /\ \E z \in Indices, t \in Indices, p \in Indices :
         /\ IsConstant(z, "0") /\ IsConstant(t, "3")
         /\ At(values, p) = [type |-> "+", arg0 |-> t, arg1 |-> 0]

\* C23: sub(a, b) returns a when b is the constant 0, else the constant of
\* the difference when both are constants, else the interned '-' entry
\* (a, b); a zero left operand with a right operand that is not a constant
\* is not simplified.
C23_SubRules ==
    pc = "lower" =>
        \A a \in Indices, b \in Indices :
            /\ IF IsConstant(b, "0") THEN Unchanged(sub(values, a, b), a)
               ELSE IF BothConstants(a, b)
               THEN ExactDecimal(NumSub(NumberAt(a), NumberAt(b))) =>
                        InternedAs(sub(values, a, b),
                                   ConstantOf(NumSub(NumberAt(a), NumberAt(b))))
               ELSE InternedAs(sub(values, a, b),
                               [type |-> "-", arg0 |-> a, arg1 |-> b])
            /\ (IsConstant(a, "0") /\ At(values, b).type # "number") =>
                   At(sub(values, a, b).values, sub(values, a, b).index)
                       = [type |-> "-", arg0 |-> a, arg1 |-> b]

\* a table with a constant 0, a folded negative difference and a '-' entry
\* with the constant 0 on the left
C23_Witness ==
    /\ pc = "lower" /\ todo = <<>>
    /\ code = "(1-2)-z"
    /\ \E z \in Indices, t \in Indices, m \in Indices :
         /\ IsConstant(z, "0") /\ IsConstant(t, "-1")
         /\ At(values, m) = [type |-> "-", arg0 |-> z, arg1 |-> 1]

(***************************************************************************)
(* lower, case by case.                                                    *)
(***************************************************************************)
\* lower is about to return from a node of the given type, its operands
\* lowered
AtNode(type) == pc = "lower" /\ todo # <<>> /\ Head(todo).type = type

\* the pairs the two operands were lowered to
LeftPair == stack[Len(stack) - 1]
RightPair == stack[Len(stack)]

\* the table after the step holds entry i with the value x at (z_re, z_im)
Denotes(i, x, z_re, z_im) == ValueOf(values', i, z_re, z_im) = x

\* the step returned the pair (re, im) and left the table vals
Lowered(vals, re, im) ==
    /\ values' = vals
    /\ stack'[Len(stack')] = [re |-> re, im |-> im]

\* re = sub(mul(ar,br), mul(ai,bi)) and im = add(mul(ar,bi), mul(ai,br)),
\* the calls made in this order
MulShape(a, b) ==
    LET m1 == mul(values, a.re, b.re)
        m2 == mul(m1.values, a.im, b.im)
        re == sub(m2.values, m1.index, m2.index)
        m3 == mul(re.values, a.re, b.im)
        m4 == mul(m3.values, a.im, b.re)
        im == add(m4.values, m3.index, m4.index)
    IN  Lowered(im.values, re.index, im.index)

\* the pair returned denotes the complex product of the operands' values
MulValue(a, b) ==
    \A z_re \in Args, z_im \in Args :
        LET ar == ValueOf(values, a.re, z_re, z_im)
            ai == ValueOf(values, a.im, z_re, z_im)
            br == ValueOf(values, b.re, z_re, z_im)
            bi == ValueOf(values, b.im, z_re, z_im)
        IN  /\ Denotes(stack'[Len(stack')].re,
                       NumSub(NumMul(ar, br), NumMul(ai, bi)), z_re, z_im)
            /\ Denotes(stack'[Len(stack')].im,
                       NumAdd(NumMul(ar, bi), NumMul(ai, br)), z_re, z_im)

\* only the shape of the product, whatever it denotes
MulShapeOnly == [][AtNode("*") => MulShape(LeftPair, RightPair)]_vars

\* C24: lowering l*r with l -> (ar, ai) and r -> (br, bi) returns
\* re = sub(mul(ar,br), mul(ai,bi)) and im = add(mul(ar,bi), mul(ai,br)),
\* and for all values of the operands the pair denotes the complex product
\* (ar*br - ai*bi, ar*bi + ai*br).
C24_LowerMul ==
    [][AtNode("*") => (/\ MulShape(LeftPair, RightPair)
                       /\ MulValue(LeftPair, RightPair))]_vars

\* the index of denom = add(mul(br,br), mul(bi,bi)) and the table it leaves
Denom(b) ==
    LET s1 == mul(values, b.re, b.re)
        s2 == mul(s1.values, b.im, b.im)
    IN  add(s2.values, s1.index, s2.index)

\* re = div(add(mul(ar,br), mul(ai,bi)), denom) and
\* im = div(sub(mul(ai,br), mul(ar,bi)), denom), denom computed first
DivShape(a, b) ==
    LET t  == Denom(b)
        m1 == mul(t.values, a.re, b.re)
        m2 == mul(m1.values, a.im, b.im)
        n1 == add(m2.values, m1.index, m2.index)
        re == div(n1.values, n1.index, t.index)
        m3 == mul(re.values, a.im, b.re)
        m4 == mul(m3.values, a.re, b.im)
        n2 == sub(m4.values, m3.index, m4.index)
        im == div(n2.values, n2.index, t.index)
    IN  Lowered(im.values, re.index, im.index)

\* entry i of the table after the step is a quotient by entry t
QuotientBy(i, t) ==
    /\ At(values', i).type = "/"
    /\ At(values', i).arg1 = t

\* a quotient that div neither folds nor simplifies is a quotient by denom,
\* the real one and the imaginary one alike
DivSameDenom(b) ==
    LET t == Denom(b).index
        top == stack'[Len(stack')]
    IN  ~isOne(values', t) =>
            /\ ~isNumber(values', top.re) => QuotientBy(top.re, t)
            /\ ~isNumber(values', top.im) => QuotientBy(top.im, t)

\* C25: lowering l/r with l -> (ar, ai) and r -> (br, bi) computes
\* denom = add(mul(br,br), mul(bi,bi)) once and returns
\* re = div(add(mul(ar,br), mul(ai,bi)), denom) and
\* im = div(sub(mul(ai,br), mul(ar,bi)), denom); both quotients use the same
\* denom index.
C25_LowerDiv ==
    [][AtNode("/") => (/\ DivShape(LeftPair, RightPair)
                       /\ DivSameDenom(RightPair))]_vars

\* lower has returned from a division whose two quotients are distinct
\* entries of the table over one denominator
C25_Witness ==
    /\ pc = "lower" /\ todo = <<>> /\ ast.type = "/"
    /\ stack[1].re # stack[1].im
    /\ At(values, stack[1].re).type = "/"
    /\ At(values, stack[1].im).type = "/"
    /\ At(values, stack[1].re).arg1 = At(values, stack[1].im).arg1
    /\ At(values, At(values, stack[1].re).arg1).type = "+"

\* the constant written t
NumberEntry(t) == [type |-> "number", arg0 |-> t, arg1 |-> null]

\* the indices of the BinaryOp entries of the table vals
BinaryOps(vals) ==
    {k \in 0..(Len(vals) - 1) : At(vals, k).type \in binaryOps}

\* the step returned the constants written reText and imText, and added
\* nothing but constants to the table
LeafPair(reText, imText) ==
    /\ At(values', stack'[Len(stack')].re) = NumberEntry(reText)
    /\ At(values', stack'[Len(stack')].im) = NumberEntry(imText)
    /\ IsPrefix(values, values')
    /\ BinaryOps(values') = BinaryOps(values)

\* C26: leaves lower to pairs of constants: Number(value) lowers to
\* (constant(value), constant("0")), the text of the literal kept as it is,
\* and Name("i") lowers to (constant("0"), constant("1")); neither adds a
\* BinaryOp entry.
C26_LowerLeaves ==
    [][IF AtNode("number") THEN LeafPair(Head(todo).value, "0")
       ELSE IF AtNode("name")
       THEN Head(todo).id = "i" => LeafPair("0", "1")
       ELSE TRUE]_vars

\* lower has returned from the leaves of a formula of i and the literal 01
C26_Witness ==
    /\ pc = "lower" /\ Len(stack) = 2 /\ Len(todo) = 1
    /\ ast.left = [type |-> "name", id |-> "i"]
    /\ ast.right = [type |-> "number", value |-> "01"]
    /\ At(values, stack[1].re) = NumberEntry("0")
    /\ At(values, stack[1].im) = NumberEntry("1")
    /\ At(values, stack[2].re) = NumberEntry("01")
    /\ At(values, stack[2].im) = NumberEntry("0")
    /\ BinaryOps(values) = {}

\* the names the assignments of a program text bind, in statement order
AssignedNames(text) ==
    [k \in 1..Len(SelectSeq(Lines(text), IsAssignment)) |->
        AssignedName(SelectSeq(Lines(text), IsAssignment)[k])]

\* the names are t0, t1, ..., one after the other
Numbered(names) ==
    \A k \in 1..Len(names) : names[k] = "t" \o ToString(k - 1)

\* C27: in every emitted program with k assignment statements the assigned
\* names are exactly t0, t1, ..., t(k-1), in statement order, each assigned
\* once; the numbering restarts at t0 in every compilation, whatever the
\* compilations before it emitted.
C27_TemporaryNames ==
    /\ Numbered(AssignedNames(out))
    /\ \A j \in 1..Len(AssignedNames(out)), k \in 1..Len(AssignedNames(out)) :
           AssignedNames(out)[j] = AssignedNames(out)[k] => j = k

\* a program of several temporaries emitted after an earlier compilation
\* that bound temporaries of its own
C27_Witness ==
    /\ pc = "done"
    /\ Len(AssignedNames(out)) >= 2
    /\ prev.pc = "done"
    /\ Len(AssignedNames(prev.out)) >= 1
    /\ prev.out # out

\* the operator expression the emitter writes for the BinaryOp entry i
ExpressionOf(i) ==
    "(" \o FinalJs[At(values, i).arg0 + 1] \o At(values, i).type
        \o FinalJs[At(values, i).arg1 + 1] \o ")"

\* how many times the text t is written in s
Occurrences(s, t) ==
    Cardinality({k \in 1..(Len(s) - Len(t) + 1) :
                    SubSeq(s, k, k + Len(t) - 1) = t})

\* C28: compute once: in every emitted program the operator expression of
\* each BinaryOp entry is written out at most once across all right-hand
\* sides and the return statement; every further use of the entry, a use as
\* a final result included, is a reference to its temporary.
C28_ComputeOnce ==
    Emitted =>
        \A i \in Indices :
            At(values, i).type \in binaryOps =>
                Occurrences(out, ExpressionOf(i)) <= 1

\* the temporaries the right-hand sides of the assignments to `names` refer to
ReferredBy(names) ==
    UNION {NamesIn(RightHandSide(Assignments[k])) :
              k \in {j \in 1..Len(Assignments) :
                        AssignedName(Assignments[j]) \in names}}

\* names, and what they refer to directly or through n more temporaries
RECURSIVE Closure(_, _)
Closure(names, n) ==
    IF n = 0 THEN names
    ELSE Closure(names \cup ReferredBy(names), n - 1)

\* the temporaries the return statement refers to, directly or through
\* other temporaries
LiveNames ==
    Closure(NamesIn(ReturnedText(Statements[Len(Statements)])),
            Len(Assignments))

\* C29: no dead temporaries: every temporary assigned in an emitted program
\* is referred to, directly or through other temporaries, by the return
\* statement; entries a simplification made unreachable from the result
\* pair (the operands of a product with 0, say) produce no statement.
C29_NoDeadTemporaries ==
    Emitted =>
        \A k \in 1..Len(Assignments) :
            AssignedName(Assignments[k]) \in LiveNames

\* C30: the emitted text stays well-formed with folded negative constants:
\* no '-' operator is written right before a constant that begins with '-',
\* that is, the emitted text never contains "--", which would be read as the
\* decrement operator.
C30_NoDoubleMinus ==
    Emitted => ~Contains(out, "--")

====
